---- MODULE Spec2Model ----
(***************************************************************************)
(* Model of the FAQ stores of aira-faq (src/models.py) and of the page     *)
(* handlers that change them (src/pages/enhanced_faqs.py,                  *)
(* src/pages/add_faq.py, src/app.py).                                      *)
(*                                                                         *)
(* A string is a sequence of one-character strings, so that str.lower,     *)
(* str.strip, re.sub and str.split are computed character by character.    *)
(* A JSON file is modelled by the list of dictionaries json.dump writes    *)
(* and json.load reads back.  EnhancedFAQ.created_at is set by the         *)
(* constructor and is never serialized, compared or read again; the model  *)
(* leaves it out.                                                          *)
(***************************************************************************)
EXTENDS Integers, Sequences, FiniteSets, TLC

VARIABLES
    faqs,       \* EnhancedFAQManager.faqs: the in-memory collection
    file,       \* enhanced_faqs.json: whether it exists, and its content
    now,        \* the wall clock, in seconds (time.time(), datetime.now())
    ret,        \* the Boolean the last store call returned to its caller
    msg,        \* the st.warning / st.error the last store call emitted
    op,         \* the last handler that ran, and the collection size it found
    lfaqs,      \* FAQManager._faqs: the legacy in-memory collection
    lfile,      \* faq.json: whether it exists, and its content
    backups,    \* the faq_backup_<stamp>.json files: stamp -> content
    out,        \* the value the last query or constructor call handed back
    peer,       \* EnhancedFAQManager.faqs of a second instance on the same file
    session,    \* st.session_state: the page shown, the FAQ selected, the
                \* conversion flags and counter
    hist        \* what has been asked of the pages (no part of the program):
                \* the record Edit was clicked on, the places conversion
                \* tried, how the enhancer was when Edit FAQ was last
                \* submitted, the parity of the conversions started

vars ==
    <<faqs, file, now, ret, msg, op, lfaqs, lfile, backups, out, peer,
      session, hist>>

----------------------------------------------------------------------------
(* Bounds and input sets *)

\* how many seconds the clock may advance
MaxTicks == 1

\* the clock when the program starts (an epoch second of 2025)
StartTime == 1750000000

\* str(int(time.time()))[-6:] keeps the last six decimal digits
TimestampModulus == 1000000

\* Python's None, where a string is expected
None == "None"

\* id=None: no id supplied to the constructor
NoId == [cat |-> "", slug |-> <<>>, ts |-> 0]

\* nothing handed back yet
NoOut == [kind |-> "none"]

\* st.session_state.selected_faq_id = None
NoSelection == -1

\* the sidebar's pages
Pages == { "View FAQs", "Enhanced FAQs", "Create FAQ", "Edit FAQ" }

\* st.session_state after initialize_session_state on a new session; a key
\* that is absent is given the default every st.session_state.get names
NewSession ==
    [ current_page        |-> "Create FAQ",
      selected_faq_id     |-> NoSelection,
      show_conversion     |-> FALSE,
      converting_all      |-> FALSE,
      conversion_progress |-> 0 ]

\* nothing asked of the pages yet
NoHist == [picked |-> <<>>, attempted |-> <<>>, form |-> <<>>, run |-> 0]

\* a path at which os.path.exists() is false
NoFile == [exists |-> FALSE, valid |-> FALSE, data |-> <<>>]

\* a file that open(path, 'w') truncated and json.dump did not complete
TornFile == [exists |-> TRUE, valid |-> FALSE, data |-> <<>>]

\* a file whose text json.load parses to a list holding a mapping without
\* the key "question"
BadItemsFile ==
    [exists |-> TRUE, valid |-> TRUE, data |-> << [answer |-> <<"x">>] >>]

\* a file whose text is "{}": json.load returns an empty mapping, which a
\* for loop or a comprehension runs over like an empty list; the field shape
\* records what the text was, and no operation of the program reads it
EmptyMappingFile ==
    [exists |-> TRUE, valid |-> TRUE, data |-> <<>>, shape |-> "mapping"]

\* the contents another program or a hand edit can leave in a backing file
CorruptContents == { TornFile, BadItemsFile, EmptyMappingFile }

\* how a write of the primary file can end: written in full, open() raised
\* (the file is as it was), or json.dump raised after open() truncated it
WriteOutcomes == { "written", "open_failed", "torn" }
WriteFaults == WriteOutcomes \ { "written" }

\* raw question texts a form can submit
QuestionInputs ==
    { <<"a">>, <<"A">>, <<"a", "?">>, <<" ", "b">>, <<" ">> }

\* how many records the legacy collection may grow to
MaxLegacy == 2

\* how many legacy records there are to edit where the enhancer is tried
MaxEdited == 1

\* FAQ.validate: the least lengths of a question and of an answer
MinQuestionLen == 5
MinAnswerLen == 10

\* the character c, n times
Rep(c, n) == [i \in 1..n |-> c]

\* question and answer texts submitted to the legacy store
LegacyQuestionInputs == { Rep("a", 5), Rep("b", 5), <<"a">> }
LegacyAnswerInputs == { Rep("x", 10), <<"x">> }

\* the question texts submitted where the file system can fail
FaultQuestionInputs == { <<"a">>, <<"A">>, <<"a", "?">>, <<" ">> }

\* raw answer texts a form can submit
AnswerInputs == { <<"x", " ">>, <<" ">> }

\* what the category select box (or its absence) passes to the constructor
CategoryInputs == { "general" }

\* the tag lists and alternate question lists a form can submit
TagInputs == { <<>> }
AltInputs == { <<>> }

----------------------------------------------------------------------------
(* Strings *)

LowerChar(c) ==
    CASE c = "A" -> "a"
      [] c = "B" -> "b"
      [] OTHER -> c

\* str.lower()
Lower(s) == [i \in 1..Len(s) |-> LowerChar(s[i])]

IsSpace(c) == c = " "

IsAlnum(c) == c \in {"a", "b", "x", "y", "A", "B"}

RECURSIVE LStrip(_)
LStrip(s) ==
    IF s # <<>> /\ IsSpace(Head(s)) THEN LStrip(Tail(s)) ELSE s

RECURSIVE RStrip(_)
RStrip(s) ==
    IF s # <<>> /\ IsSpace(s[Len(s)])
    THEN RStrip(SubSeq(s, 1, Len(s) - 1))
    ELSE s

\* str.strip()
Strip(s) == RStrip(LStrip(s))

\* re.sub(r'[^a-zA-Z0-9\s]', '', s)
KeepAlnumSpace(s) == SelectSeq(s, LAMBDA c : IsAlnum(c) \/ IsSpace(c))

RECURSIVE SplitFrom(_, _, _)
SplitFrom(s, cur, acc) ==
    IF s = <<>>
    THEN IF cur = <<>> THEN acc ELSE Append(acc, cur)
    ELSE IF IsSpace(Head(s))
         THEN SplitFrom(Tail(s), <<>>,
                        IF cur = <<>> THEN acc ELSE Append(acc, cur))
         ELSE SplitFrom(Tail(s), Append(cur, Head(s)), acc)

\* str.split(): the maximal runs of non-whitespace characters
Split(s) == SplitFrom(s, <<>>, <<>>)

\* seq[:n]
Take(seq, n) == SubSeq(seq, 1, IF Len(seq) < n THEN Len(seq) ELSE n)

RECURSIVE Join(_)
\* '-'.join(words)
Join(words) ==
    IF words = <<>> THEN <<>>
    ELSE IF Len(words) = 1 THEN words[1]
    ELSE words[1] \o <<"-">> \o Join(Tail(words))

----------------------------------------------------------------------------
(* EnhancedFAQ: src/models.py, class EnhancedFAQ *)

\* category.lower().replace(' ', '_') if category else 'general'
CategoryPart(category) ==
    IF category = None \/ category = "" THEN "general" ELSE category

\* str(int(time.time()))[-6:]
TimeSuffix(t) == t % TimestampModulus

\* f"faq-{category_part}-{question_part}-{timestamp}", kept as its three parts
GenerateId(question, category, t) ==
    [ cat  |-> CategoryPart(category),
      slug |-> Join(Take(Split(KeepAlnumSpace(Lower(question))), 4)),
      ts   |-> TimeSuffix(t) ]

\* EnhancedFAQ.__init__
EnhancedFAQ(question, answer, category, tags, alts, id, t) ==
    [ id       |-> IF id = NoId
                   THEN GenerateId(question, category, t) ELSE id,
      category |-> IF category = None \/ category = ""
                   THEN "general" ELSE category,
      tags     |-> tags,
      question |-> Strip(question),
      alternate_questions |-> alts,
      answer   |-> Strip(answer) ]

\* EnhancedFAQ.to_dict
ToDict(f) ==
    [ id |-> f.id, category |-> f.category, tags |-> f.tags,
      question |-> f.question,
      alternate_questions |-> f.alternate_questions,
      answer |-> f.answer ]

\* data.get(key, default)
Get(d, key, default) == IF key \in DOMAIN d THEN d[key] ELSE default

\* data["question"] and data["answer"] do not raise KeyError
HasKeys(d) == {"question", "answer"} \subseteq DOMAIN d

\* from_dict leaving the id out of the constructor call
FromDictFreshId(d, t) ==
    EnhancedFAQ(d.question, d.answer, Get(d, "category", "general"),
                Get(d, "tags", <<>>), Get(d, "alternate_questions", <<>>),
                NoId, t)

\* EnhancedFAQ.from_dict
FromDict(d, t) ==
    EnhancedFAQ(d.question, d.answer, Get(d, "category", "general"),
                Get(d, "tags", <<>>), Get(d, "alternate_questions", <<>>),
                Get(d, "id", NoId), t)

----------------------------------------------------------------------------
(* EnhancedFAQManager: src/models.py, class EnhancedFAQManager *)

\* [faq.to_dict() for faq in self.faqs], what json.dump writes
Serialize(coll) == [i \in 1..Len(coll) |-> ToDict(coll[i])]

\* [EnhancedFAQ.from_dict(item) for item in data]
Deserialize(data, t) == [i \in 1..Len(data) |-> FromDict(data[i], t)]

\* EnhancedFAQManager.export_to_json: json.dumps of the same list, with the
\* same indent and ensure_ascii as the json.dump of save_faqs
ExportToJson(coll) == Serialize(coll)

\* save_faqs returning True without having written
WriteFileStale(coll, prior, w) == prior

\* the with open(self.file_path, 'w') block of save_faqs, ending as w says
WriteFile(coll, prior, w) ==
    CASE w = "written"     -> [exists |-> TRUE, valid |-> TRUE,
                               data |-> Serialize(coll)]
      [] w = "open_failed" -> prior
      [] w = "torn"        -> TornFile

RECURSIVE DuplicateGuardCaseSensitive(_, _)
\* the guard with the questions compared as written, not lower-cased
DuplicateGuardCaseSensitive(existing, f) ==
    IF existing = <<>> THEN "ok"
    ELSE IF Head(existing).question = f.question
         THEN "dup_question"
    ELSE IF Head(existing).id = f.id
         THEN "dup_id"
    ELSE DuplicateGuardCaseSensitive(Tail(existing), f)

RECURSIVE DuplicateGuardNoIdCheck(_, _)
\* the guard without its second test
DuplicateGuardNoIdCheck(existing, f) ==
    IF existing = <<>> THEN "ok"
    ELSE IF Lower(Head(existing).question) = Lower(f.question)
         THEN "dup_question"
    ELSE DuplicateGuardNoIdCheck(Tail(existing), f)

\* the guard leaving its loop after the first record
DuplicateGuardFirstOnly(existing, f) ==
    IF existing = <<>> THEN "ok"
    ELSE IF Lower(Head(existing).question) = Lower(f.question)
         THEN "dup_question"
    ELSE IF Head(existing).id = f.id
         THEN "dup_id"
    ELSE "ok"

RECURSIVE DuplicateGuardSwapped(_, _)
\* the guard with the two warnings exchanged
DuplicateGuardSwapped(existing, f) ==
    IF existing = <<>> THEN "ok"
    ELSE IF Lower(Head(existing).question) = Lower(f.question)
         THEN "dup_id"
    ELSE IF Head(existing).id = f.id
         THEN "dup_question"
    ELSE DuplicateGuardSwapped(Tail(existing), f)

RECURSIVE DuplicateGuard(_, _)
\* the for loop of add_enhanced_faq: "ok" when it runs to its end
DuplicateGuard(existing, f) ==
    IF existing = <<>> THEN "ok"
    ELSE IF Lower(Head(existing).question) = Lower(f.question)
         THEN "dup_question"
    ELSE IF Head(existing).id = f.id
         THEN "dup_id"
    ELSE DuplicateGuard(Tail(existing), f)

\* the filter with its test inverted
RemoveByIdInverted(coll, id) == SelectSeq(coll, LAMBDA f : f.id = id)

\* [f for f in enhanced_manager.faqs if f.id != faq.id]
RemoveById(coll, id) == SelectSeq(coll, LAMBDA f : f.id # id)

\* no from_dict of the comprehension over data raises
Readable(data) == \A i \in 1..Len(data) : HasKeys(data[i])

\* load_faqs reporting a missing file as a failure
LoadFaqsMissingIsError ==
    /\ IF ~file.exists \/ ~file.valid \/ ~Readable(file.data)
       THEN faqs' = <<>> /\ ret' = FALSE /\ msg' = "load_error"
       ELSE /\ faqs' = Deserialize(file.data, now)
            /\ ret' = TRUE
            /\ msg' = ""
    /\ op' = [name |-> "load", before |-> Len(faqs)]
    /\ UNCHANGED <<file, now, lfaqs, lfile, backups, out, peer, session, hist>>

\* EnhancedFAQManager.load_faqs, also run by __init__: json.load raising
\* (~valid) and from_dict raising (~Readable) both end in except Exception
LoadFaqs ==
    /\ IF file.exists /\ (~file.valid \/ ~Readable(file.data))
       THEN faqs' = <<>> /\ ret' = FALSE /\ msg' = "load_error"
       ELSE /\ faqs' = IF file.exists
                       THEN Deserialize(file.data, now) ELSE <<>>
            /\ ret' = TRUE
            /\ msg' = ""
    /\ op' = [name |-> "load", before |-> Len(faqs)]
    /\ UNCHANGED <<file, now, lfaqs, lfile, backups, out, peer, session, hist>>

\* add_enhanced_faq putting the new record first
AddEnhancedFaqInsertFirst(coll, f, name, w) ==
    LET verdict == DuplicateGuard(coll, f) IN
    /\ IF verdict = "ok"
       THEN /\ faqs' = <<f>> \o coll
            /\ file' = WriteFile(faqs', file, w)
            /\ ret' = (w = "written")
            /\ msg' = IF w = "written" THEN "" ELSE "save_error"
       ELSE /\ faqs' = coll
            /\ file' = file
            /\ ret' = FALSE
            /\ msg' = verdict
    /\ op' = [name |-> name, before |-> Len(faqs)]
    /\ UNCHANGED <<now, lfaqs, lfile, backups, out, peer>>

\* add_enhanced_faq replacing the record that has the new record's id
AddEnhancedFaqOverwrite(coll, f, name, w) ==
    LET verdict == DuplicateGuard(coll, f) IN
    /\ IF verdict = "ok" \/ verdict = "dup_id"
       THEN /\ faqs' = Append(SelectSeq(coll, LAMBDA e : e.id # f.id), f)
            /\ file' = WriteFile(faqs', file, w)
            /\ ret' = (w = "written")
            /\ msg' = IF w = "written" THEN "" ELSE "save_error"
       ELSE /\ faqs' = coll
            /\ file' = file
            /\ ret' = FALSE
            /\ msg' = verdict
    /\ op' = [name |-> name, before |-> Len(faqs)]
    /\ UNCHANGED <<now, lfaqs, lfile, backups, out, peer>>

\* add_enhanced_faq taking the record out again when the save fails
AddEnhancedFaqRollback(coll, f, name, w) ==
    LET verdict == DuplicateGuard(coll, f) IN
    /\ IF verdict = "ok"
       THEN /\ faqs' = IF w = "written" THEN Append(coll, f) ELSE coll
            /\ file' = WriteFile(Append(coll, f), file, w)
            /\ ret' = (w = "written")
            /\ msg' = IF w = "written" THEN "" ELSE "save_error"
       ELSE /\ faqs' = coll
            /\ file' = file
            /\ ret' = FALSE
            /\ msg' = verdict
    /\ op' = [name |-> name, before |-> Len(faqs)]
    /\ UNCHANGED <<now, lfaqs, lfile, backups, out, peer>>

\* EnhancedFAQManager.add_enhanced_faq(f) on the collection coll, called by
\* the handler named name; w is how the write of save_faqs ends
AddEnhancedFaq(coll, f, name, w) ==
    LET verdict == DuplicateGuard(coll, f) IN
    /\ IF verdict = "ok"
       THEN /\ faqs' = Append(coll, f)
            /\ file' = WriteFile(faqs', file, w)
            /\ ret' = (w = "written")
            /\ msg' = IF w = "written" THEN "" ELSE "save_error"
       ELSE /\ faqs' = coll
            /\ file' = file
            /\ ret' = FALSE
            /\ msg' = verdict
    /\ op' = [name |-> name, before |-> Len(faqs)]
    /\ UNCHANGED <<now, lfaqs, lfile, backups, out, peer>>

\* the form's check left out
FormFilledAlways(q, a) == TRUE

\* the form's check: question.strip() and answer.strip()
FormFilled(q, a) == Strip(q) # <<>> /\ Strip(a) # <<>>

\* the texts of S that the form's check lets through
Filled(S) == { s \in S : Strip(s) # <<>> }

\* the branch of a form handler that calls no store operation
FormRejected ==
    /\ msg' = "fill_in"
    /\ op' = [name |-> "invalid", before |-> Len(faqs)]
    /\ UNCHANGED <<faqs, file, now, ret, lfaqs, lfile, backups, out, peer, session, hist>>

\* the record render_manual_creation constructs from its form
CreatedFaq(q, a, c, tags, alts) ==
    EnhancedFAQ(Strip(q), Strip(a), c, tags, alts, NoId, now)

\* the edited record constructed without id=faq.id
EditedFaqFreshId(i, q, a, c, tags, alts) ==
    EnhancedFAQ(Strip(q), Strip(a), c, tags, alts, NoId, now)

\* the record render_inline_enhanced_editor constructs from its form
EditedFaq(i, q, a, c, tags, alts) ==
    EnhancedFAQ(Strip(q), Strip(a), c, tags, alts, faqs[i].id, now)

\* src/pages/add_faq.py, render_manual_creation: "Save Enhanced FAQ"
ManualCreate(q, a, c, tags, alts, w) ==
    /\ IF FormFilled(q, a)
       THEN AddEnhancedFaq(faqs, CreatedFaq(q, a, c, tags, alts), "add", w)
       ELSE FormRejected
    /\ UNCHANGED <<session, hist>>

\* the edit handler calling add without taking the old record out first
InlineEditNoRemoval(i, q, a, c, tags, alts, w) ==
    /\ IF FormFilled(q, a)
       THEN AddEnhancedFaq(faqs, EditedFaq(i, q, a, c, tags, alts), "edit", w)
       ELSE FormRejected
    /\ UNCHANGED <<session, hist>>

\* src/pages/enhanced_faqs.py, render_inline_enhanced_editor: "Save Changes"
\* on the record at position i of the collection
InlineEdit(i, q, a, c, tags, alts, w) ==
    /\ IF FormFilled(q, a)
       THEN AddEnhancedFaq(RemoveById(faqs, faqs[i].id),
                           EditedFaq(i, q, a, c, tags, alts), "edit", w)
       ELSE FormRejected
    /\ UNCHANGED <<session, hist>>

\* the delete handler refusing an id no record carries, as
\* FAQManager.delete_faq does
ConfirmDeleteStrict(id, w) ==
    IF \E i \in 1..Len(faqs) : faqs[i].id = id
    THEN /\ faqs' = RemoveById(faqs, id)
         /\ file' = WriteFile(faqs', file, w)
         /\ ret' = (w = "written")
         /\ msg' = IF w = "written" THEN "" ELSE "save_error"
         /\ op' = [name |-> "remove", before |-> Len(faqs)]
         /\ UNCHANGED <<now, lfaqs, lfile, backups, out, peer, session, hist>>
    ELSE /\ ret' = FALSE
         /\ msg' = "invalid_id"
         /\ op' = [name |-> "remove", before |-> Len(faqs)]
         /\ UNCHANGED <<faqs, file, now, lfaqs, lfile, backups, out, peer, session, hist>>

\* src/pages/enhanced_faqs.py, render_delete_confirmation: "Yes, Delete"
\* with the record of id `id` in st.session_state.deleting_enhanced_faq
ConfirmDelete(id, w) ==
    /\ faqs' = RemoveById(faqs, id)
    /\ file' = WriteFile(faqs', file, w)
    /\ ret' = (w = "written")
    /\ msg' = IF w = "written" THEN "" ELSE "save_error"
    /\ op' = [name |-> "remove", before |-> Len(faqs)]
    /\ UNCHANGED <<now, lfaqs, lfile, backups, out, peer, session, hist>>

\* a second passes
Tick ==
    /\ now < StartTime + MaxTicks
    /\ now' = now + 1
    /\ op' = [name |-> "tick", before |-> Len(faqs)]
    /\ UNCHANGED <<faqs, file, ret, msg, lfaqs, lfile, backups, out, peer, session, hist>>

\* the ids a record made from a question of Q can carry
KnownIds(Q) ==
    { GenerateId(q, c, t) : q \in Q, c \in CategoryInputs,
                            t \in StartTime..(StartTime + MaxTicks) }

Init ==
    /\ faqs = <<>>
    /\ file = NoFile
    /\ now = StartTime
    /\ ret = TRUE
    /\ msg = ""
    /\ op = [name |-> "init", before |-> 0]
    /\ lfaqs = <<>>
    /\ lfile = NoFile
    /\ backups = <<>>
    /\ out = NoOut
    /\ peer = <<>>
    /\ session = NewSession
    /\ hist = NoHist

\* "Save Enhanced FAQ" with a question of Q
Create(Q, w) ==
    \E q \in Q, a \in AnswerInputs, c \in CategoryInputs,
       tags \in TagInputs, alts \in AltInputs :
        ManualCreate(q, a, c, tags, alts, w)

\* "Save Changes" with a question of Q
Edit(Q, w) ==
    \E i \in 1..Len(faqs), q \in Q, a \in AnswerInputs,
       c \in CategoryInputs, tags \in TagInputs, alts \in AltInputs :
        InlineEdit(i, q, a, c, tags, alts, w)

\* "Yes, Delete" on a record the page once showed
Delete(Q, w) == \E id \in KnownIds(Q) : ConfirmDelete(id, w)

\* the enhanced store on a file system that accepts every write
Next ==
    \/ LoadFaqs
    \/ Create(QuestionInputs, "written")
    \/ Edit(QuestionInputs, "written")
    \/ Delete(QuestionInputs, "written")
    \/ Tick

Spec == Init /\ [][Next]_vars

\* the enhanced store on a file system whose writes can fail
NextFault ==
    \/ LoadFaqs
    \/ \E w \in WriteOutcomes : Create(FaultQuestionInputs, w)
    \/ \E w \in WriteOutcomes : Edit(FaultQuestionInputs, w)
    \/ \E w \in WriteOutcomes : Delete(FaultQuestionInputs, w)
    \/ Tick

SpecFault == Init /\ [][NextFault]_vars

----------------------------------------------------------------------------
(* FAQ and FAQManager: src/models.py, the legacy store *)

\* FAQ.__init__
FAQ(question, answer, id) ==
    [question |-> Strip(question), answer |-> Strip(answer), id |-> id]

\* FAQ.to_dict
FAQToDict(f) == [question |-> f.question, answer |-> f.answer]

\* FAQ.from_dict
FAQFromDict(d, id) == FAQ(d.question, d.answer, id)

\* validate without its two length tests
ValidateNonEmptyOnly(f) ==
    IF f.question = <<>> THEN "empty_question"
    ELSE IF f.answer = <<>> THEN "empty_answer"
    ELSE "ok"

\* FAQ.validate: "ok", or the error it returns
Validate(f) ==
    IF f.question = <<>> THEN "empty_question"
    ELSE IF f.answer = <<>> THEN "empty_answer"
    ELSE IF Len(f.question) < MinQuestionLen THEN "short_question"
    ELSE IF Len(f.answer) < MinAnswerLen THEN "short_answer"
    ELSE "ok"

\* datetime.now().strftime('%Y%m%d_%H%M%S'): the clock to the second
BackupStamp(t) == t

\* backups with the file named for stamp s (re)written with content
WithBackup(b, s, content) ==
    [x \in (DOMAIN b) \cup {s} |-> IF x = s THEN content ELSE b[x]]

\* FAQManager.save_data (and save_faq_data of src/faq_manager.py): the
\* backup files after it has run on the prior file
BackupsAfterSave(b, prior, t) ==
    IF prior.exists THEN WithBackup(b, BackupStamp(t), prior) ELSE b

\* FAQManager.save_data: the primary file after json.dump
LegacyWrite(coll) ==
    [exists |-> TRUE, valid |-> TRUE,
     data |-> [i \in 1..Len(coll) |-> FAQToDict(coll[i])]]

\* delete_faq without the loop that renumbers
RenumberSkipped(coll) == coll

\* for i, faq in enumerate(self._faqs): faq.id = i
Renumber(coll) == [i \in 1..Len(coll) |-> [coll[i] EXCEPT !.id = i - 1]]

\* self._faqs.pop(faq_id)
Pop(coll, k) ==
    [i \in 1..(Len(coll) - 1) |-> IF i < k + 1 THEN coll[i] ELSE coll[i + 1]]

\* the part of add_faq, update_faq and delete_faq that ends in save_data
LegacySave(coll, name) ==
    /\ lfaqs' = coll
    /\ backups' = BackupsAfterSave(backups, lfile, now)
    /\ lfile' = LegacyWrite(coll)
    /\ ret' = TRUE
    /\ msg' = ""
    /\ op' = [name |-> name, before |-> Len(lfaqs)]
    /\ UNCHANGED <<faqs, file, now, out, peer>>

\* the early returns of add_faq, update_faq and delete_faq
LegacyRefused(name, why) ==
    /\ ret' = FALSE
    /\ msg' = why
    /\ op' = [name |-> name, before |-> Len(lfaqs)]
    /\ UNCHANGED <<faqs, file, now, lfaqs, lfile, backups, out, peer>>

\* FAQManager.load_data, also run by __init__: json.load raising
\* JSONDecodeError (~valid) is caught; the KeyError or TypeError of
\* FAQ.from_dict (~Readable) is not, so it leaves load_data before the
\* assignment to self._faqs and before any return
LoadData ==
    /\ IF lfile.exists /\ ~lfile.valid
       THEN lfaqs' = <<>> /\ ret' = FALSE /\ msg' = "load_error"
       ELSE IF lfile.exists /\ ~Readable(lfile.data)
       THEN lfaqs' = lfaqs /\ ret' = ret /\ msg' = "raised"
       ELSE /\ lfaqs' = IF lfile.exists
                        THEN [i \in 1..Len(lfile.data) |->
                                 FAQFromDict(lfile.data[i], i - 1)]
                        ELSE <<>>
            /\ ret' = TRUE
            /\ msg' = ""
    /\ op' = [name |-> "lload", before |-> Len(lfaqs)]
    /\ UNCHANGED <<faqs, file, now, lfile, backups, out, peer, session, hist>>

\* FAQManager.add_faq
AddFaq(q, a) ==
    LET f == FAQ(q, a, -1) IN
    IF Validate(f) # "ok"
    THEN LegacyRefused("ladd", Validate(f))
    ELSE LegacySave(Append(lfaqs, [f EXCEPT !.id = Len(lfaqs)]), "ladd")

\* FAQManager.update_faq
UpdateFaq(id, q, a) ==
    LET f == FAQ(q, a, -1) IN
    IF ~(0 <= id /\ id < Len(lfaqs))
    THEN LegacyRefused("lupdate", "invalid_id")
    ELSE IF Validate(f) # "ok"
    THEN LegacyRefused("lupdate", Validate(f))
    ELSE LegacySave([lfaqs EXCEPT ![id + 1] = [f EXCEPT !.id = id]],
                    "lupdate")

\* FAQManager.delete_faq
DeleteFaq(id) ==
    IF ~(0 <= id /\ id < Len(lfaqs))
    THEN LegacyRefused("ldelete", "invalid_id")
    ELSE LegacySave(Renumber(Pop(lfaqs, id)), "ldelete")

LegacyAdd ==
    /\ Len(lfaqs) < MaxLegacy
    /\ \E q \in LegacyQuestionInputs, a \in LegacyAnswerInputs : AddFaq(q, a)
    /\ UNCHANGED <<session, hist>>

LegacyUpdate ==
    /\ \E id \in -1..MaxLegacy, q \in LegacyQuestionInputs,
          a \in LegacyAnswerInputs : UpdateFaq(id, q, a)
    /\ UNCHANGED <<session, hist>>

LegacyDelete ==
    /\ \E id \in -1..MaxLegacy : DeleteFaq(id)
    /\ UNCHANGED <<session, hist>>

\* the legacy store on a file system that accepts every write
NextLegacy == LoadData \/ LegacyAdd \/ LegacyUpdate \/ LegacyDelete \/ Tick

SpecLegacy == Init /\ [][NextLegacy]_vars

\* texts handed to add_faq and update_faq, at and below the least lengths,
\* blank and empty
RejectQuestionInputs ==
    { Rep("a", MinQuestionLen), Rep("b", MinQuestionLen + 1),
      Rep("a", MinQuestionLen - 1) \o <<" ">>, <<" ">>, <<>> }
RejectAnswerInputs ==
    { Rep("x", MinAnswerLen), Rep("x", MinAnswerLen - 1), <<" ">> }

\* add_faq with a text of the sets above
AddAny ==
    /\ Len(lfaqs) < MaxLegacy
    /\ \E q \in RejectQuestionInputs, a \in RejectAnswerInputs : AddFaq(q, a)
    /\ UNCHANGED <<session, hist>>

\* update_faq with an id in or out of range and a text of the sets above
UpdateAny ==
    /\ \E id \in -1..MaxLegacy, q \in RejectQuestionInputs,
          a \in RejectAnswerInputs : UpdateFaq(id, q, a)
    /\ UNCHANGED <<session, hist>>

\* the legacy store called with good and bad arguments
NextReject == LoadData \/ AddAny \/ UpdateAny \/ LegacyDelete

SpecReject == Init /\ [][NextReject]_vars

\* the four operations of the legacy store, within one second
NextLegacyOps == LoadData \/ LegacyAdd \/ LegacyUpdate \/ LegacyDelete

SpecLegacyOps == Init /\ [][NextLegacyOps]_vars

\* another program, or a hand edit, replaces the enhanced backing file
CorruptFile ==
    /\ file' \in CorruptContents
    /\ file' # file
    /\ op' = [name |-> "corrupt", before |-> Len(faqs)]
    /\ UNCHANGED <<faqs, now, ret, msg, lfaqs, lfile, backups, out, peer, session, hist>>

\* another program, or a hand edit, replaces the legacy backing file
CorruptLegacyFile ==
    /\ lfile' \in CorruptContents
    /\ lfile' # lfile
    /\ op' = [name |-> "lcorrupt", before |-> Len(lfaqs)]
    /\ UNCHANGED <<faqs, file, now, ret, msg, lfaqs, backups, out, peer, session, hist>>

\* both stores, loading and adding, with backing files that other programs
\* can replace
NextLoad ==
    \/ LoadFaqs
    \/ Create(FaultQuestionInputs, "written")
    \/ CorruptFile
    \/ LoadData
    \/ LegacyAdd
    \/ CorruptLegacyFile

SpecLoad == Init /\ [][NextLoad]_vars

----------------------------------------------------------------------------
(* get_all_enhanced_faqs and the callers that change what it returned *)

\* the options of the category select boxes
Categories ==
    { "dashboard", "candidate_management", "job_posting",
      "interview_scheduling", "resume_applications", "analytics_reporting",
      "team_collaboration", "ai_features", "integrations",
      "account_settings", "general" }

\* the "New Category" options tried
BulkCategoryInputs == { "dashboard", "general" }

\* the tags typed into "Add Tags"
BulkTagInputs == { <<"b">> }

\* in a list that self.faqs.copy() returned, an element that is not one of
\* the store's record objects
Foreign == 0

\* EnhancedFAQManager.get_all_enhanced_faqs: self.faqs.copy() is a new list
\* of the same record objects; refs[k] is the place in self.faqs of the
\* object that is the k-th element of the returned list
GetAllEnhancedFaqs ==
    /\ out' = [kind |-> "all", refs |-> [i \in 1..Len(faqs) |-> i]]
    /\ op' = [name |-> "all", before |-> Len(faqs)]
    /\ UNCHANGED <<faqs, file, now, ret, msg, lfaqs, lfile, backups, peer, session, hist>>

\* the list the caller holds, if get_all_enhanced_faqs was called
Refs == IF out.kind = "all" THEN out.refs ELSE <<>>

\* the caller removes the k-th element of the returned list
SnapshotRemove(k) ==
    /\ out.kind = "all"
    /\ out' = [out EXCEPT !.refs =
                  SubSeq(out.refs, 1, k - 1)
                  \o SubSeq(out.refs, k + 1, Len(out.refs))]
    /\ op' = [name |-> "snap_remove", before |-> Len(faqs)]
    /\ UNCHANGED <<faqs, file, now, ret, msg, lfaqs, lfile, backups, peer, session, hist>>

\* the caller appends a record of its own to the returned list
SnapshotAppend ==
    /\ out.kind = "all"
    /\ Len(out.refs) <= Len(faqs)
    /\ out' = [out EXCEPT !.refs = Append(out.refs, Foreign)]
    /\ op' = [name |-> "snap_append", before |-> Len(faqs)]
    /\ UNCHANGED <<faqs, file, now, ret, msg, lfaqs, lfile, backups, peer, session, hist>>

\* the store's record at place i is an element of the returned list
Returned(i) == \E k \in 1..Len(out.refs) : out.refs[k] = i

\* tags with tag appended if it is not among them
WithTag(tags, tag) ==
    IF \E j \in 1..Len(tags) : tags[j] = tag THEN tags ELSE Append(tags, tag)

\* render_bulk_operations, "Update Categories": faq.category = new_category
\* on the records of the list get_all_enhanced_faqs returned, then save_faqs
BulkCategoryUpdate(new, old) ==
    /\ out.kind = "all"
    /\ faqs' = [i \in 1..Len(faqs) |->
                  IF Returned(i) /\ (old = "All" \/ faqs[i].category = old)
                  THEN [faqs[i] EXCEPT !.category = new]
                  ELSE faqs[i]]
    /\ file' = WriteFile(faqs', file, "written")
    /\ ret' = TRUE
    /\ msg' = ""
    /\ op' = [name |-> "bulk_category", before |-> Len(faqs)]
    /\ UNCHANGED <<now, lfaqs, lfile, backups, out, peer, session, hist>>

\* render_bulk_operations, "Add Tags to All": faq.tags.append(tag) on the
\* records of the list get_all_enhanced_faqs returned, then save_faqs
BulkAddTags(tag) ==
    /\ out.kind = "all"
    /\ faqs' = [i \in 1..Len(faqs) |->
                  IF Returned(i)
                  THEN [faqs[i] EXCEPT !.tags = WithTag(faqs[i].tags, tag)]
                  ELSE faqs[i]]
    /\ file' = WriteFile(faqs', file, "written")
    /\ ret' = TRUE
    /\ msg' = ""
    /\ op' = [name |-> "bulk_tags", before |-> Len(faqs)]
    /\ UNCHANGED <<now, lfaqs, lfile, backups, out, peer, session, hist>>

\* the enhanced store and a caller holding what get_all_enhanced_faqs
\* returned; new records are appended, so the places refs names stay theirs
NextAlias ==
    \/ Create(FaultQuestionInputs, "written")
    \/ GetAllEnhancedFaqs
    \/ \E k \in 1..Len(Refs) : SnapshotRemove(k)
    \/ SnapshotAppend
    \/ \E new \in BulkCategoryInputs,
          old \in {"All"} \cup { faqs[i].category : i \in 1..Len(faqs) } :
          BulkCategoryUpdate(new, old)
    \/ \E tag \in BulkTagInputs : BulkAddTags(tag)

SpecAlias == Init /\ [][NextAlias]_vars

----------------------------------------------------------------------------
(* Saving a generated FAQ, and search_enhanced_faqs *)

\* what the editor of a generated FAQ can hold when it is saved: the texts,
\* the tags typed between commas, the alternate questions of the suggestion
GenQuestionInputs == { <<"a", "b">>, <<"x">>, <<" ">> }
GenAnswerInputs == { <<"y", "A">> }
GenTagInputs == { <<>>, << <<"b">> >>, << <<"A">>, <<" ">> >> }
GenAltInputs == { <<>>, << <<"b", "a">>, <<" ">> >> }
GenCategoryInputs == { "dashboard" }

\* [x.strip() for x in xs if x.strip()]
StripAll(xs) ==
    SelectSeq([i \in 1..Len(xs) |-> Strip(xs[i])], LAMBDA x : x # <<>>)

\* src/pages/add_faq.py, render_enhanced_faqs_editor: "Save Enhanced FAQ" on
\* a generated FAQ
GeneratedSave(q, a, c, tags, alts, w) ==
    /\ IF FormFilled(q, a)
       THEN AddEnhancedFaq(faqs,
                           EnhancedFAQ(Strip(q), Strip(a), c, StripAll(tags),
                                       StripAll(alts), NoId, now),
                           "generate", w)
       ELSE FormRejected
    /\ UNCHANGED <<session, hist>>

\* "Save Enhanced FAQ" on a generated FAQ with a question of Q, tags of T
\* and alternate questions of L
SaveGenerated(Q, T, L) ==
    \E q \in Q, a \in GenAnswerInputs, c \in GenCategoryInputs,
       tags \in T, alts \in L :
        GeneratedSave(q, a, c, tags, alts, "written")

RECURSIVE StrIn(_, _)
\* sub in s, for two strings
StrIn(sub, s) ==
    IF Len(sub) > Len(s) THEN FALSE
    ELSE IF SubSeq(s, 1, Len(sub)) = sub THEN TRUE
    ELSE StrIn(sub, Tail(s))

\* the condition of the if in the loop of search_enhanced_faqs
Matches(query, f) ==
    \/ StrIn(query, Lower(f.question))
    \/ StrIn(query, Lower(f.answer))
    \/ \E j \in 1..Len(f.tags) : StrIn(query, Lower(f.tags[j]))
    \/ \E j \in 1..Len(f.alternate_questions) :
          StrIn(query, Lower(f.alternate_questions[j]))

RECURSIVE SearchLoop(_, _, _)
\* for faq in self.faqs: ... results.append(faq)
SearchLoop(coll, query, results) ==
    IF coll = <<>> THEN results
    ELSE SearchLoop(Tail(coll), query,
                    IF Matches(query, Head(coll))
                    THEN Append(results, Head(coll)) ELSE results)

\* the search comparing the query as typed, not lower-cased
SearchEnhancedFaqsAsTyped(coll, query) == SearchLoop(coll, query, <<>>)

\* EnhancedFAQManager.search_enhanced_faqs
SearchEnhancedFaqs(coll, query) == SearchLoop(coll, Lower(query), <<>>)

\* the queries typed into the search box
QueryInputs == { <<>>, <<"a">>, <<"B">>, <<"b", "A">>, <<"x">>, <<"?">> }

\* a caller runs search_enhanced_faqs(query)
Search(query) ==
    /\ out' = [kind |-> "search", query |-> query,
               result |-> SearchEnhancedFaqs(faqs, query)]
    /\ op' = [name |-> "search", before |-> Len(faqs)]
    /\ UNCHANGED <<faqs, file, now, ret, msg, lfaqs, lfile, backups, peer, session, hist>>

\* the enhanced store filled with generated FAQs, and searched
NextSearch ==
    \/ SaveGenerated(GenQuestionInputs, GenTagInputs, GenAltInputs)
    \/ \E query \in QueryInputs : Search(query)

SpecSearch == Init /\ [][NextSearch]_vars

----------------------------------------------------------------------------
(* The EnhancedFAQ constructor, to_dict and from_dict, called on their own *)

\* arguments of the constructor
RecordQuestionInputs == { <<"a">>, <<" ", "b">> }
RecordAnswerInputs == { <<"x", " ">> }
RecordCategoryInputs == { None, "", "general", "dashboard", "billing" }
RecordIdInputs ==
    { NoId, [cat |-> "general", slug |-> <<"x">>, ts |-> TimeSuffix(StartTime)] }

\* mappings handed to from_dict: a full one, one without category and id
DictInputs ==
    { [question |-> <<"a">>, answer |-> <<"x">>],
      [question |-> <<"a">>, answer |-> <<"x">>, category |-> "billing",
       tags |-> <<>>, alternate_questions |-> <<>>,
       id |-> [cat |-> "general", slug |-> <<"x">>,
               ts |-> TimeSuffix(StartTime)]] }

\* what is remembered of the record constructed before
Earlier ==
    IF out.kind = "record"
    THEN << [id |-> out.f.id, question |-> out.question,
             category |-> out.category, given |-> out.given,
             at |-> out.at] >>
    ELSE <<>>

\* EnhancedFAQ(question, answer, category, tags, alternate_questions, id)
Construct(q, a, c, tags, alts, id) ==
    /\ out' = [kind |-> "record",
               f |-> EnhancedFAQ(q, a, c, tags, alts, id, now),
               question |-> q, category |-> c, given |-> id, at |-> now,
               prev |-> Earlier]
    /\ op' = [name |-> "construct", before |-> Len(faqs)]
    /\ UNCHANGED <<faqs, file, now, ret, msg, lfaqs, lfile, backups, peer, session, hist>>

\* EnhancedFAQ.from_dict(R.to_dict()) on the record R constructed last
RoundTrip ==
    /\ out.kind = "record"
    /\ out' = [kind |-> "roundtrip", f |-> out.f, given |-> out.given,
               made |-> out.at, at |-> now,
               back |-> FromDict(ToDict(out.f), now)]
    /\ op' = [name |-> "roundtrip", before |-> Len(faqs)]
    /\ UNCHANGED <<faqs, file, now, ret, msg, lfaqs, lfile, backups, peer, session, hist>>

\* EnhancedFAQ.from_dict(d)
Parse(d) ==
    /\ out' = [kind |-> "parsed", f |-> FromDict(d, now), d |-> d, at |-> now]
    /\ op' = [name |-> "parse", before |-> Len(faqs)]
    /\ UNCHANGED <<faqs, file, now, ret, msg, lfaqs, lfile, backups, peer, session, hist>>

\* the program is left alone, or started again, TimestampModulus seconds on
Elapse ==
    /\ now < StartTime + TimestampModulus
    /\ now' = now + TimestampModulus
    /\ op' = [name |-> "elapse", before |-> Len(faqs)]
    /\ UNCHANGED <<faqs, file, ret, msg, lfaqs, lfile, backups, out, peer, session, hist>>

NextRecord ==
    \/ \E q \in RecordQuestionInputs, a \in RecordAnswerInputs,
          c \in RecordCategoryInputs, tags \in TagInputs,
          alts \in AltInputs, id \in RecordIdInputs :
          Construct(q, a, c, tags, alts, id)
    \/ RoundTrip
    \/ \E d \in DictInputs : Parse(d)
    \/ Tick
    \/ Elapse

SpecRecord == Init /\ [][NextRecord]_vars

----------------------------------------------------------------------------
(* Conversion of legacy FAQs, and the entry points together *)

\* enhance_faq_to_structured_format returned None or an empty mapping
NoSuggestion == [failed |-> TRUE]

\* what enhance_faq_to_structured_format can return: nothing, or a mapping
\* (here one with a category of the model's own and no alternate questions)
AiSuggestions ==
    { NoSuggestion, [category |-> "billing", tags |-> << <<"b">> >>] }

\* src/app.py, render_faq_conversion: what one pass of "Convert All FAQs"
\* does to the stores, on the legacy FAQ at place k, with the suggestion ai
ConvertOne(k, ai) ==
    IF ai = NoSuggestion
    THEN /\ msg' = "convert_failed"
         /\ op' = [name |-> "convert", before |-> Len(faqs)]
         /\ UNCHANGED <<faqs, file, now, ret, lfaqs, lfile, backups, out,
                        peer>>
    ELSE AddEnhancedFaq(faqs,
                        EnhancedFAQ(lfaqs[k].question, lfaqs[k].answer,
                                    Get(ai, "category", "general"),
                                    Get(ai, "tags", <<>>),
                                    Get(ai, "alternate_questions", <<>>),
                                    NoId, now),
                        "convert", "written")

\* one pass of "Convert All FAQs" on the legacy FAQ at place k, whatever the
\* counter
Convert(k, ai) ==
    /\ ConvertOne(k, ai)
    /\ UNCHANGED <<session, hist>>

\* the texts typed where every entry point is open
EntryQuestionInputs == { <<"a">>, <<" ">> }
EntryEditInputs == { <<"A", " ">>, <<" ">> }
EntryGenQuestionInputs == { <<"x">>, <<" ">> }

\* every entry point that puts records in the enhanced store: manual
\* creation, saving a generated FAQ, inline edit, conversion of the legacy
\* FAQs (themselves added through add_faq), and load
NextEntry ==
    \/ LoadFaqs
    \/ Create(EntryQuestionInputs, "written")
    \/ SaveGenerated(EntryGenQuestionInputs, TagInputs, AltInputs)
    \/ Edit(EntryEditInputs, "written")
    \/ \E k \in 1..Len(lfaqs), ai \in AiSuggestions : Convert(k, ai)
    \/ LegacyAdd

SpecEntry == Init /\ [][NextEntry]_vars

----------------------------------------------------------------------------
(* Two EnhancedFAQManager instances on the same backing file *)

\* the question texts typed in the two sessions
PeerQuestionInputs == { <<"a">>, <<"A">>, <<"x">>, <<" ">> }

\* EnhancedFAQManager.load_faqs of the second instance, run by its __init__
PeerLoad ==
    /\ IF file.exists /\ (~file.valid \/ ~Readable(file.data))
       THEN peer' = <<>> /\ ret' = FALSE /\ msg' = "load_error"
       ELSE /\ peer' = IF file.exists
                       THEN Deserialize(file.data, now) ELSE <<>>
            /\ ret' = TRUE
            /\ msg' = ""
    /\ op' = [name |-> "peer_load", before |-> Len(peer)]
    /\ UNCHANGED <<faqs, file, now, lfaqs, lfile, backups, out, session, hist>>

\* add_enhanced_faq reading the file again before it appends and writes
PeerAddMerging(f, w) ==
    LET base == IF file.exists /\ file.valid
                THEN Deserialize(file.data, now) ELSE peer
        verdict == DuplicateGuard(base, f)
    IN
    /\ IF verdict = "ok"
       THEN /\ peer' = Append(base, f)
            /\ file' = WriteFile(peer', file, w)
            /\ ret' = (w = "written")
            /\ msg' = IF w = "written" THEN "" ELSE "save_error"
       ELSE /\ peer' = peer
            /\ file' = file
            /\ ret' = FALSE
            /\ msg' = verdict
    /\ op' = [name |-> "peer_add", before |-> Len(peer)]
    /\ UNCHANGED <<faqs, now, lfaqs, lfile, backups, out, session, hist>>

\* EnhancedFAQManager.add_enhanced_faq(f) of the second instance: the guard
\* runs over its own self.faqs, and save_faqs writes its own self.faqs
PeerAdd(f, w) ==
    LET verdict == DuplicateGuard(peer, f) IN
    /\ IF verdict = "ok"
       THEN /\ peer' = Append(peer, f)
            /\ file' = WriteFile(peer', file, w)
            /\ ret' = (w = "written")
            /\ msg' = IF w = "written" THEN "" ELSE "save_error"
       ELSE /\ peer' = peer
            /\ file' = file
            /\ ret' = FALSE
            /\ msg' = verdict
    /\ op' = [name |-> "peer_add", before |-> Len(peer)]
    /\ UNCHANGED <<faqs, now, lfaqs, lfile, backups, out, session, hist>>

\* "Save Enhanced FAQ" in the second session, with a question of Q
PeerCreate(Q, w) ==
    \E q \in Q, a \in AnswerInputs, c \in CategoryInputs,
       tags \in TagInputs, alts \in AltInputs :
        IF FormFilled(q, a)
        THEN PeerAdd(CreatedFaq(q, a, c, tags, alts), w)
        ELSE FormRejected

\* two sessions, each constructing its manager (a load) and adding records
NextPeers ==
    \/ LoadFaqs
    \/ PeerLoad
    \/ Create(PeerQuestionInputs, "written")
    \/ PeerCreate(PeerQuestionInputs, "written")
    \/ Tick

SpecPeers == Init /\ [][NextPeers]_vars

----------------------------------------------------------------------------
(* The pages of src/app.py on the legacy store: View FAQs and Edit FAQ *)

\* FAQManager.get_faq_by_id: the record in a list of one, or None as <<>>
GetFaqById(coll, id) ==
    IF 0 <= id /\ id < Len(coll) THEN <<coll[id + 1]>> ELSE <<>>

\* enhance_question / enhance_answer returned None (not configured, or the
\* call raised) or an empty text: what "if enhanced_q:" takes as false
NoReply == <<>>

\* what enhance_question and enhance_answer can return
QuestionReplies == { NoReply, Rep("b", MinQuestionLen) }
AnswerReplies == { NoReply, Rep("y", MinAnswerLen) }

\* the texts typed into the form of the Edit FAQ page
EditQuestionInputs == { <<" ">> \o Rep("a", MinQuestionLen), <<"a">>, <<" ">> }
EditAnswerInputs == { Rep("x", MinAnswerLen) \o <<" ">> }

\* the question typed into the Create FAQ page
PageQuestionInputs == { <<"a", " ">>, <<" ">> }

\* the final text taken from the reply whenever enhancement was asked for
FinalTextFromReply(typed, wanted, configured, reply) ==
    IF wanted /\ configured THEN reply ELSE Strip(typed)

\* render_edit_faq: final_question and final_answer, the typed text trimmed
\* unless enhancement was asked for, is configured and gave a reply
FinalText(typed, wanted, configured, reply) ==
    IF wanted /\ configured /\ reply # NoReply THEN reply ELSE Strip(typed)

\* create_simple_navigation: a sidebar button of another page
Navigate(page) ==
    /\ session.current_page # page
    /\ session' = [session EXCEPT !.current_page = page]
    /\ op' = [name |-> "navigate", before |-> Len(lfaqs)]
    /\ UNCHANGED <<faqs, file, now, ret, msg, lfaqs, lfile, backups, out,
                   peer, hist>>

\* render_view_faqs: "Edit" on the legacy FAQ shown at place k
ViewEdit(k) ==
    /\ session.current_page = "View FAQs"
    /\ session' = [session EXCEPT !.selected_faq_id = lfaqs[k].id,
                                  !.current_page = "Edit FAQ"]
    /\ hist' = [hist EXCEPT !.picked = <<FAQToDict(lfaqs[k])>>]
    /\ op' = [name |-> "view_edit", before |-> Len(lfaqs)]
    /\ UNCHANGED <<faqs, file, now, ret, msg, lfaqs, lfile, backups, out,
                   peer>>

\* render_view_faqs: "Delete" on the legacy FAQ shown at place k
ViewDelete(k) ==
    /\ session.current_page = "View FAQs"
    /\ DeleteFaq(lfaqs[k].id)
    /\ UNCHANGED <<session, hist>>

\* render_edit_faq gets as far as its form: an FAQ is selected and
\* get_faq_by_id finds one
EditFormShown ==
    /\ session.current_page = "Edit FAQ"
    /\ session.selected_faq_id # NoSelection
    /\ GetFaqById(lfaqs, session.selected_faq_id) # <<>>

\* st.session_state after an edit or a delete on the Edit FAQ page succeeded
\* or was cancelled
BackToView ==
    [session EXCEPT !.selected_faq_id = NoSelection,
                    !.current_page = "View FAQs"]

\* render_edit_faq: "Save Changes" with the texts q and a; wantq and wanta
\* are the two check boxes, configured is ai_helper.is_configured(), rq and
\* ra are what enhance_question and enhance_answer return if called
EditSubmit(q, a, wantq, wanta, configured, rq, ra) ==
    /\ EditFormShown
    /\ hist' = [hist EXCEPT !.form =
                   << [configured |-> configured,
                       failed |-> /\ configured /\ wantq /\ wanta
                                  /\ rq = NoReply /\ ra = NoReply] >>]
    /\ IF FormFilled(q, a)
       THEN /\ UpdateFaq(session.selected_faq_id,
                         FinalText(q, wantq, configured, rq),
                         FinalText(a, wanta, configured, ra))
            /\ session' = IF ret' THEN BackToView ELSE session
       ELSE /\ msg' = "fill_in"
            /\ op' = [name |-> "invalid", before |-> Len(lfaqs)]
            /\ UNCHANGED <<faqs, file, now, ret, lfaqs, lfile, backups, out,
                           peer, session>>

\* the check boxes that can be ticked: they are drawn only when the enhancer
\* is configured, and are False otherwise
Ticks(configured) == IF configured THEN BOOLEAN ELSE {FALSE}

\* what a call of the enhancer can return, and None where it is not called
Replies(wanted, replies) == IF wanted THEN replies ELSE {NoReply}

\* "Save Changes" with every text, tick and reply tried
EditSave ==
    \E q \in EditQuestionInputs, a \in EditAnswerInputs,
       configured \in BOOLEAN :
       \E wantq, wanta \in Ticks(configured) :
          \E rq \in Replies(wantq, QuestionReplies),
             ra \in Replies(wanta, AnswerReplies) :
             EditSubmit(q, a, wantq, wanta, configured, rq, ra)

\* render_edit_faq: "Cancel"
EditCancel ==
    /\ EditFormShown
    /\ session' = BackToView
    /\ op' = [name |-> "cancel", before |-> Len(lfaqs)]
    /\ UNCHANGED <<faqs, file, now, ret, msg, lfaqs, lfile, backups, out,
                   peer, hist>>

\* render_edit_faq: "Delete FAQ"
EditDelete ==
    /\ EditFormShown
    /\ DeleteFaq(session.selected_faq_id)
    /\ session' = IF ret' THEN BackToView ELSE session
    /\ UNCHANGED hist

\* render_add_faq_page: "Save Enhanced FAQ" of the manual form, the form
\* shown when the enhancer is not configured and on request when it is
PageCreate(Q) ==
    /\ session.current_page = "Create FAQ"
    /\ Create(Q, "written")

\* main() of src/app.py on the legacy FAQs: the managers are constructed at
\* every run of the script (LoadData), the sidebar and the pages act on
\* st.session_state; the legacy FAQs themselves come through add_faq
NextPages ==
    \/ LoadData
    \/ LegacyAdd
    \/ \E page \in Pages : Navigate(page)
    \/ \E k \in 1..Len(lfaqs) : ViewEdit(k)
    \/ \E k \in 1..Len(lfaqs) : ViewDelete(k)
    \/ EditSave
    \/ EditCancel
    \/ EditDelete

SpecPages == Init /\ [][NextPages]_vars

\* add_faq while the legacy collection has fewer than n records
LegacyAddUpTo(n) ==
    /\ Len(lfaqs) < n
    /\ \E q \in LegacyQuestionInputs, a \in LegacyAnswerInputs : AddFaq(q, a)
    /\ UNCHANGED <<session, hist>>

\* the submissions an enhancer can take part in or be missing from: the
\* manual form of the Create FAQ page and the form of the Edit FAQ page
NextEnhancer ==
    \/ LegacyAddUpTo(MaxEdited)
    \/ \E page \in Pages : Navigate(page)
    \/ \E k \in 1..Len(lfaqs) : ViewEdit(k)
    \/ EditSave
    \/ PageCreate(PageQuestionInputs)

SpecEnhancer == Init /\ [][NextEnhancer]_vars

----------------------------------------------------------------------------
(* "Convert All FAQs": render_faq_conversion of src/app.py *)

\* the counter left where it is when the FAQ was not converted
NextProgressIfConverted(progress, converted) ==
    IF converted THEN progress + 1 ELSE progress

\* st.session_state.conversion_progress = progress + 1
NextProgress(progress, converted) == progress + 1

\* render_view_faqs gets as far as render_faq_conversion, and that one past
\* "if not faqs": the View page, the conversion shown, an FAQ to convert
ConversionShown ==
    /\ session.current_page = "View FAQs"
    /\ session.show_conversion
    /\ lfaqs # <<>>

\* render_view_faqs: "Convert Legacy to Enhanced"
OpenConversion ==
    /\ session.current_page = "View FAQs"
    /\ lfaqs # <<>>
    /\ session' = [session EXCEPT !.show_conversion = TRUE]
    /\ op' = [name |-> "open_conversion", before |-> Len(faqs)]
    /\ UNCHANGED <<faqs, file, now, ret, msg, lfaqs, lfile, backups, out,
                   peer, hist>>

\* render_faq_conversion: "Convert All FAQs"
ConvertAll ==
    /\ ConversionShown
    /\ session' = [session EXCEPT !.converting_all = TRUE,
                                  !.conversion_progress = 0]
    /\ hist' = [hist EXCEPT !.attempted = <<>>, !.run = 1 - @]
    /\ op' = [name |-> "convert_all", before |-> Len(faqs)]
    /\ UNCHANGED <<faqs, file, now, ret, msg, lfaqs, lfile, backups, out,
                   peer>>

\* render_faq_conversion: "Close Conversion"
CloseConversion ==
    /\ ConversionShown
    /\ session' = [session EXCEPT !.show_conversion = FALSE,
                                  !.converting_all = FALSE,
                                  !.conversion_progress = 0]
    /\ op' = [name |-> "close_conversion", before |-> Len(faqs)]
    /\ UNCHANGED <<faqs, file, now, ret, msg, lfaqs, lfile, backups, out,
                   peer, hist>>

\* render_faq_conversion with converting_all set and progress < len(faqs):
\* the FAQ at faqs[progress] is tried with the suggestion ai, the counter is
\* set, and st.rerun() asks for the next pass (the time.sleep(1) before it
\* is the clock's business)
ConvertPass(ai) ==
    LET progress == session.conversion_progress IN
    /\ ConversionShown
    /\ session.converting_all
    /\ progress < Len(lfaqs)
    /\ ConvertOne(progress + 1, ai)
    /\ session' = [session EXCEPT !.conversion_progress =
                      NextProgress(progress, ai # NoSuggestion /\ ret')]
    /\ hist' = [hist EXCEPT !.attempted =
                   Append(@, [at |-> progress,
                              result |-> IF ai = NoSuggestion THEN "failed"
                                         ELSE IF ret' THEN "converted"
                                         ELSE "skipped"])]

\* render_faq_conversion with converting_all set and progress >= len(faqs):
\* "Start New Conversion"
StartNewConversion ==
    /\ ConversionShown
    /\ session.converting_all
    /\ session.conversion_progress >= Len(lfaqs)
    /\ session' = [session EXCEPT !.conversion_progress = 0]
    /\ hist' = [hist EXCEPT !.attempted = <<>>, !.run = 1 - @]
    /\ op' = [name |-> "start_new", before |-> Len(faqs)]
    /\ UNCHANGED <<faqs, file, now, ret, msg, lfaqs, lfile, backups, out,
                   peer>>

\* a pass of the conversion with any suggestion
ConvertStep == \E ai \in AiSuggestions : ConvertPass(ai)

\* the View page with the conversion: the legacy FAQs come through add_faq,
\* the sidebar leads to the page and away from it
NextConvert ==
    \/ LegacyAdd
    \/ \E page \in Pages : Navigate(page)
    \/ OpenConversion
    \/ ConvertAll
    \/ CloseConversion
    \/ ConvertStep
    \/ StartNewConversion

\* every pass ends in st.rerun(), which runs the script again at once: a
\* pass that stays possible is taken
SpecConvert == Init /\ [][NextConvert]_vars /\ WF_vars(ConvertStep)

----------------------------------------------------------------------------
(* The vocabulary of the properties *)

SameLetter(c, d) ==
    \/ c = d
    \/ {c, d} = {"a", "A"}
    \/ {c, d} = {"b", "B"}

\* s and t are equal when compared case-insensitively
EqualIgnoringCase(s, t) ==
    /\ Len(s) = Len(t)
    /\ \A i \in 1..Len(s) : SameLetter(s[i], t[i])

HasQuestion(coll, q) ==
    \E i \in 1..Len(coll) : EqualIgnoringCase(coll[i].question, q)

HasId(coll, id) == \E i \in 1..Len(coll) : coll[i].id = id

\* the dictionary d holds the content of the record f
Holds(d, f) ==
    /\ d.id = f.id
    /\ d.category = f.category
    /\ d.tags = f.tags
    /\ d.question = f.question
    /\ d.alternate_questions = f.alternate_questions
    /\ d.answer = f.answer

\* the file f holds exactly the collection coll, in its order
FileHolds(f, coll) ==
    /\ f.exists
    /\ f.valid
    /\ Len(f.data) = Len(coll)
    /\ \A i \in 1..Len(coll) : Holds(f.data[i], coll[i])

\* the calls add(f) on a collection coll that the handler named name can
\* make in this state with a question of Q
AddCallsOf(Q, name) ==
    IF name = "add"
    THEN { [coll |-> faqs, f |-> CreatedFaq(q, a, c, tags, alts),
            name |-> "add"] :
             q \in Filled(Q), a \in Filled(AnswerInputs),
             c \in CategoryInputs, tags \in TagInputs, alts \in AltInputs }
    ELSE IF name = "edit"
    THEN { [coll |-> RemoveById(faqs, faqs[i].id),
            f |-> EditedFaq(i, q, a, c, tags, alts), name |-> "edit"] :
             i \in 1..Len(faqs), q \in Filled(Q), a \in Filled(AnswerInputs),
             c \in CategoryInputs, tags \in TagInputs, alts \in AltInputs }
    ELSE {}

\* the calls of add that the step to the next state can be
AddCalls(Q) == AddCallsOf(Q, op'.name)

AddOps == { "add", "edit" }

----------------------------------------------------------------------------
(* Properties of the enhanced store *)

\* C1: add(R) with a question that an existing record has, compared
\* case-insensitively, leaves the collection as it was, does not write the
\* backing file and returns a non-success result with a duplicate warning.
C1_DuplicateQuestionRejected ==
    [][ \A call \in AddCalls(QuestionInputs) :
          ( /\ AddEnhancedFaq(call.coll, call.f, call.name, "written")
            /\ HasQuestion(call.coll, call.f.question) )
          => /\ faqs' = call.coll
             /\ file' = file
             /\ ret' = FALSE
             /\ msg' \in {"dup_question", "dup_id"} ]_vars

\* an add was rejected for its question, on a collection holding "A"
C1_Witness ==
    /\ op.name = "add"
    /\ ret = FALSE
    /\ msg = "dup_question"
    /\ Len(faqs) = op.before
    /\ \E i \in 1..Len(faqs) : faqs[i].question = <<"A">>

\* C2: no two records of the collection have the same id, in every state
\* reached by load, add, edit and remove.
C2_UniqueIds ==
    \A i, j \in 1..Len(faqs) : i # j => faqs[i].id # faqs[j].id

\* three records after an edit that was accepted
C2_Witness ==
    /\ op.name = "edit"
    /\ ret = TRUE
    /\ Len(faqs) = 3

\* C3: no two records of the collection have questions that are equal when
\* compared case-insensitively, in every state reached by load, add, edit
\* and remove.
C3_UniqueQuestions ==
    \A i, j \in 1..Len(faqs) :
        i # j => ~EqualIgnoringCase(faqs[i].question, faqs[j].question)

\* three records read back from the file, one of them asking "A"
C3_Witness ==
    /\ op.name = "load"
    /\ Len(faqs) = 3
    /\ \E i \in 1..Len(faqs) : faqs[i].question = <<"A">>

\* C4: add(R) with a question and an id no existing record has puts R last,
\* keeps every earlier record at its place, writes the whole collection to
\* the backing file and returns success (the write succeeding).
C4_AcceptedAddAppends ==
    [][ \A call \in AddCalls(QuestionInputs) :
          ( /\ AddEnhancedFaq(call.coll, call.f, call.name, "written")
            /\ ~HasQuestion(call.coll, call.f.question)
            /\ ~HasId(call.coll, call.f.id) )
          => /\ Len(faqs') = Len(call.coll) + 1
             /\ faqs'[Len(faqs')] = call.f
             /\ \A i \in 1..Len(call.coll) : faqs'[i] = call.coll[i]
             /\ FileHolds(file', faqs')
             /\ ret' = TRUE ]_vars

\* a third record was appended and saved
C4_Witness ==
    /\ op.name = "add"
    /\ ret = TRUE
    /\ op.before = 2
    /\ Len(faqs) = 3
    /\ FileHolds(file, faqs)

\* C5: add(R) with the id of an existing record E whose question differs
\* from R's is rejected: the collection (E included) and the backing file
\* stay as they were, and the warning is the duplicate-id one when no
\* record has R's question.
C5_IdCollisionRejected ==
    [][ \A call \in AddCalls(QuestionInputs) :
          ( /\ AddEnhancedFaq(call.coll, call.f, call.name, "written")
            /\ \E i \in 1..Len(call.coll) :
                  /\ call.coll[i].id = call.f.id
                  /\ ~EqualIgnoringCase(call.coll[i].question,
                                        call.f.question) )
          => /\ faqs' = call.coll
             /\ file' = file
             /\ ret' = FALSE
             /\ ~HasQuestion(call.coll, call.f.question)
                   => msg' = "dup_id" ]_vars

\* an add was rejected for its id
C5_Witness ==
    /\ op.name = "add"
    /\ ret = FALSE
    /\ msg = "dup_id"
    /\ Len(faqs) = op.before
    /\ Len(faqs) >= 1

\* C6 as stated: the value add returns identifies the condition it ended in,
\* so two calls in a row that return the same value ended in the same one.
C6_ResultIdentifiesCondition ==
    [][ ( /\ op.name \in AddOps
          /\ op'.name \in AddOps
          /\ ret' = ret )
        => msg' = msg ]_vars

\* C6 amended: add returns a Boolean, true exactly when the record was
\* appended and the file written, false alike for a duplicate question, a
\* duplicate id and a failed save; which of the three happened is told by
\* the message add emits, not by the value it returns.
C6_BooleanResult ==
    [][ \A call \in AddCalls(FaultQuestionInputs), w \in WriteOutcomes :
          AddEnhancedFaq(call.coll, call.f, call.name, w)
          => /\ ret' \in BOOLEAN
             /\ msg' \in {"", "dup_question", "dup_id", "save_error"}
             /\ ret' <=> msg' = ""
             /\ ret' => faqs' = Append(call.coll, call.f)
                        /\ FileHolds(file', faqs')
             /\ msg' = "dup_question"
                   => HasQuestion(call.coll, call.f.question)
             /\ msg' = "dup_id" => HasId(call.coll, call.f.id)
             /\ msg' = "save_error"
                   => /\ ~HasQuestion(call.coll, call.f.question)
                      /\ ~HasId(call.coll, call.f.id)
                      /\ faqs' = Append(call.coll, call.f) ]_vars

\* an add returned False for a duplicate id
C6_Witness ==
    /\ op.name \in AddOps
    /\ ret = FALSE
    /\ msg = "dup_id"

\* C7 as stated: a save that finds a prior version of the backing file
\* leaves exactly one new backup file, holding the prior file's content, and
\* the primary file holding the current collection.
C7_BackupBeforeOverwrite ==
    [][ ( /\ op'.name \in {"add", "edit", "remove"}
          /\ ret' = TRUE
          /\ file.exists )
        => /\ \E s \in (DOMAIN backups') \ (DOMAIN backups) :
                 /\ backups'[s] = file
                 /\ (DOMAIN backups') \ (DOMAIN backups) = {s}
           /\ FileHolds(file', faqs') ]_vars

\* C8 as stated: a backup file, once written, is neither removed nor
\* overwritten by a later save, also within the same second.
C8_BackupsAccumulate ==
    [][ \A s \in DOMAIN backups :
          /\ s \in DOMAIN backups'
          /\ backups'[s] = backups[s] ]_vars

\* C9: removing an id no record carries leaves the collection as it was and
\* reports success; and a removal applied again changes nothing more.
C9_IdempotentRemoval ==
    [][ op'.name = "remove" =>
        \A id \in KnownIds(QuestionInputs) :
          ConfirmDelete(id, "written")
          => /\ ~HasId(faqs, id) => (faqs' = faqs /\ ret' = TRUE)
             /\ RemoveById(faqs', id) = faqs'
             /\ ret' = TRUE ]_vars

\* a removal found nothing to remove in a collection of two or more
C9_Witness ==
    /\ op.name = "remove"
    /\ ret = TRUE
    /\ op.before = Len(faqs)
    /\ Len(faqs) >= 2

\* C10: after remove(id) no record with that id is in the collection or in
\* the backing file, and the records with another id are all still there,
\* unchanged and in the order they had.
C10_RemovalPostcondition ==
    [][ op'.name = "remove" =>
        \A id \in KnownIds(QuestionInputs) :
          ConfirmDelete(id, "written")
          => /\ ~HasId(faqs', id)
             /\ FileHolds(file', faqs')
             /\ \A k \in 1..Len(file'.data) : file'.data[k].id # id
             /\ \A i \in 1..Len(faqs) :
                   faqs[i].id # id => \E k \in 1..Len(faqs') : faqs'[k] = faqs[i]
             /\ \A k \in 1..Len(faqs') :
                   \E i \in 1..Len(faqs) : faqs[i] = faqs'[k]
             /\ \A k, l \in 1..Len(faqs') :
                   k < l => \E i, j \in 1..Len(faqs) :
                               /\ i < j
                               /\ faqs[i] = faqs'[k]
                               /\ faqs[j] = faqs'[l] ]_vars

\* a removal took one record out of three
C10_Witness ==
    /\ op.name = "remove"
    /\ ret = TRUE
    /\ op.before = 3
    /\ Len(faqs) = 2

----------------------------------------------------------------------------
(* Properties of loading *)

\* the file f holds a serialized sequence of records
IsRecordSequence(f) ==
    /\ f.exists
    /\ f.valid
    /\ "shape" \notin DOMAIN f
    /\ \A i \in 1..Len(f.data) : HasKeys(f.data[i])

\* C11: load() where no file exists gives an empty collection, reports
\* success and creates no file; the first successful add after it creates the
\* backing file holding exactly the one record, and writes no backup; for the
\* enhanced store and for the legacy store.
C11_EmptyStoreBootstrap ==
    [][ /\ (op'.name = "load" /\ ~file.exists)
           => /\ faqs' = <<>>
              /\ ret' = TRUE
              /\ msg' = ""
              /\ ~file'.exists
        /\ (op'.name = "add" /\ ~file.exists /\ faqs = <<>> /\ ret' = TRUE)
           => /\ file'.exists
              /\ Len(faqs') = 1
              /\ FileHolds(file', faqs')
              /\ backups' = backups
        /\ (op'.name = "lload" /\ ~lfile.exists)
           => /\ lfaqs' = <<>>
              /\ ret' = TRUE
              /\ msg' = ""
              /\ ~lfile'.exists
        /\ (op'.name = "ladd" /\ ~lfile.exists /\ lfaqs = <<>> /\ ret' = TRUE)
           => /\ lfile'.exists
              /\ lfile'.valid
              /\ Len(lfile'.data) = 1
              /\ lfile'.data[1] = FAQToDict(lfaqs'[1])
              /\ backups' = backups ]_vars

\* the first add to each store has created its file, and there is no backup
C11_Witness ==
    /\ op.name = "add"
    /\ op.before = 0
    /\ ret = TRUE
    /\ Len(file.data) = 1
    /\ FileHolds(file, faqs)
    /\ Len(lfaqs) = 1
    /\ lfile.exists
    /\ Len(lfile.data) = 1
    /\ backups = <<>>

\* C12 as stated: a load of a backing file that exists and does not hold a
\* serialized sequence of records empties the collection and returns failure
\* to its caller, without raising; for the enhanced store and for the legacy
\* store.
C12_CorruptFileLoad ==
    [][ /\ (op'.name = "load" /\ file.exists /\ ~IsRecordSequence(file))
           => /\ faqs' = <<>>
              /\ ret' = FALSE
              /\ msg' = "load_error"
        /\ (op'.name = "lload" /\ lfile.exists /\ ~IsRecordSequence(lfile))
           => /\ lfaqs' = <<>>
              /\ ret' = FALSE
              /\ msg' = "load_error" ]_vars

----------------------------------------------------------------------------
(* Properties of a failed save *)

\* the file fl holds a record with the content of f
InFile(fl, f) ==
    /\ fl.exists
    /\ fl.valid
    /\ \E k \in 1..Len(fl.data) : Holds(fl.data[k], f)

\* C13 as stated: when the write of save() fails during an accepted add, add
\* reports failure, the collection in memory holds the appended record and
\* the backing file does not hold it.
C13_FileLacksRecord ==
    [][ \A call \in AddCalls(FaultQuestionInputs), w \in WriteFaults :
          ( /\ AddEnhancedFaq(call.coll, call.f, call.name, w)
            /\ ~HasQuestion(call.coll, call.f.question)
            /\ ~HasId(call.coll, call.f.id) )
          => /\ ret' = FALSE
             /\ faqs' = Append(call.coll, call.f)
             /\ ~InFile(file', call.f) ]_vars

\* C13 amended: when the write of save() fails during an add that the
\* duplicate guard accepted, add returns failure with the save error as its
\* only message (no exception leaves it), the collection in memory ends with
\* the new record, and the write has put nothing in the backing file: the
\* file is as it was, or truncated, and holds the record only if it already
\* held an identical one (an edit that changes nothing).
C13_SaveFailureKeepsRecord ==
    [][ \A call \in AddCalls(FaultQuestionInputs), w \in WriteFaults :
          ( /\ AddEnhancedFaq(call.coll, call.f, call.name, w)
            /\ ~HasQuestion(call.coll, call.f.question)
            /\ ~HasId(call.coll, call.f.id) )
          => /\ ret' = FALSE
             /\ msg' = "save_error"
             /\ faqs' = Append(call.coll, call.f)
             /\ file' \in {file, TornFile}
             /\ ~InFile(file, call.f) => ~InFile(file', call.f) ]_vars

\* a second record was appended in memory while the file, intact, still
\* holds only the first
C13_Witness ==
    /\ op.name = "add"
    /\ ret = FALSE
    /\ msg = "save_error"
    /\ op.before = 1
    /\ Len(faqs) = 2
    /\ file.exists
    /\ file.valid
    /\ Len(file.data) = 1
    /\ ~InFile(file, faqs[2])

----------------------------------------------------------------------------
(* Properties of the value all() returns *)

CallerChanges == { "snap_remove", "snap_append", "bulk_category", "bulk_tags" }

\* C14 as stated: no change a caller makes through the value all() returned
\* (adding or removing elements of the list, changing the category or the
\* tags of a returned record) alters the store's collection, and a save
\* after it writes the collection as it was.
C14_DefensiveCopy ==
    [][ op'.name \in CallerChanges
        => /\ faqs' = faqs
           /\ file' # file => FileHolds(file', faqs) ]_vars

----------------------------------------------------------------------------
(* Properties of search *)

\* s contains q as a substring, letters compared case-insensitively
ContainsIgnoringCase(s, q) ==
    \E i \in 1..(Len(s) - Len(q) + 1) :
        EqualIgnoringCase(SubSeq(s, i, i + Len(q) - 1), q)

\* the question, the answer, a tag or an alternate question of f contains q
Hit(f, q) ==
    \/ ContainsIgnoringCase(f.question, q)
    \/ ContainsIgnoringCase(f.answer, q)
    \/ \E j \in 1..Len(f.tags) : ContainsIgnoringCase(f.tags[j], q)
    \/ \E j \in 1..Len(f.alternate_questions) :
          ContainsIgnoringCase(f.alternate_questions[j], q)

\* the places of the collection whose record q hits
Hits(coll, q) == { i \in 1..Len(coll) : Hit(coll[i], q) }

\* C15: filter(query) returns the records the query hits, each once, in the
\* order they have in the collection; the whole collection for the empty
\* query; and it changes neither the collection nor the file.
C15_FilterResult ==
    [][ op'.name = "search"
        => LET q == out'.query
               r == out'.result
               M == Hits(faqs, q)
           IN /\ Len(r) = Cardinality(M)
              /\ \A i \in M :
                    r[Cardinality({ j \in M : j <= i })] = faqs[i]
              /\ q = <<>> => r = faqs
              /\ faqs' = faqs
              /\ file' = file ]_vars

\* the query "B" found one of two records, the second, by a tag or a text
\* written in the other case
C15_Witness ==
    /\ op.name = "search"
    /\ out.query = <<"B">>
    /\ Len(faqs) = 2
    /\ out.result = <<faqs[2]>>
    /\ ~StrIn(<<"B">>, faqs[2].question)

----------------------------------------------------------------------------
(* Properties of the record *)

\* C16: from_dict(to_dict(R)) has the id, category, question, answer, tags
\* and alternate questions of R, for every record R the constructor built;
\* the id is R's also when the clock has moved on since R was built.
C16_RoundTrip ==
    out.kind = "roundtrip"
    => /\ out.back.id = out.f.id
       /\ out.back.category = out.f.category
       /\ out.back.question = out.f.question
       /\ out.back.answer = out.f.answer
       /\ out.back.tags = out.f.tags
       /\ out.back.alternate_questions = out.f.alternate_questions

\* a record built without an id, from a question with a blank to strip, went
\* through to_dict and from_dict a second later
C16_Witness ==
    /\ out.kind = "roundtrip"
    /\ out.given = NoId
    /\ out.at = out.made + 1
    /\ out.f.question = <<"b">>
    /\ out.back = out.f

\* C17 as stated: two records constructed without an id from the same
\* question and category have the same id when constructed in the same
\* second, and different ids when constructed in two different seconds,
\* however far apart.
C17_IdsAcrossTime ==
    ( /\ out.kind = "record"
      /\ out.prev # <<>>
      /\ out.given = NoId
      /\ out.prev[1].given = NoId
      /\ out.prev[1].question = out.question
      /\ out.prev[1].category = out.category )
    => /\ out.at = out.prev[1].at => out.f.id = out.prev[1].id
       /\ out.at # out.prev[1].at => out.f.id # out.prev[1].id

\* C18 as stated: a record constructed or deserialized with a category that
\* is absent, empty or not in the enumerated set has the category general,
\* so the category of every record is one of the enumerated set.
C18_CategoryDefaulting ==
    /\ out.kind = "record"
       => /\ out.category \notin Categories => out.f.category = "general"
          /\ out.f.category \in Categories
    /\ out.kind = "parsed"
       => /\ Get(out.d, "category", None) \notin Categories
                => out.f.category = "general"
          /\ out.f.category \in Categories

----------------------------------------------------------------------------
(* Properties over the entry points *)

\* C19: in every state reached through manual creation, the saving of a
\* generated FAQ, inline edit, conversion and load, every record of the
\* enhanced collection and of its backing file has a question and an answer
\* that are not empty after trimming.
C19_NonEmptyText ==
    /\ \A i \in 1..Len(faqs) :
          /\ Strip(faqs[i].question) # <<>>
          /\ Strip(faqs[i].answer) # <<>>
    /\ (file.exists /\ file.valid)
       => \A k \in 1..Len(file.data) :
             /\ Strip(file.data[k].question) # <<>>
             /\ Strip(file.data[k].answer) # <<>>

\* a converted FAQ was added to a typed one and a generated one, after
\* a form with blank texts had been refused
C19_Witness ==
    /\ op.name = "convert"
    /\ ret = TRUE
    /\ Len(faqs) = 3
    /\ FileHolds(file, faqs)
    /\ \E i \in 1..3 : faqs[i].question = <<"a">>
    /\ \E i \in 1..3 : faqs[i].question = <<"x">>
    /\ Len(faqs[3].question) = MinQuestionLen

----------------------------------------------------------------------------
(* Properties of edit *)

\* C20: after a successful edit of the record with id i the collection holds
\* exactly one record with id i, carrying the edited question, answer,
\* category, tags and alternate questions; it has the size it had; and every
\* other record is in it, unchanged, in the order it had among the others.
C20_EditReplaces ==
    [][ (op'.name = "edit" /\ ret' = TRUE) =>
        \A i \in 1..Len(faqs), q \in Filled(QuestionInputs),
           a \in Filled(AnswerInputs), c \in CategoryInputs,
           tags \in TagInputs, alts \in AltInputs :
          InlineEdit(i, q, a, c, tags, alts, "written")
          => /\ Cardinality({ k \in 1..Len(faqs') :
                                faqs'[k].id = faqs[i].id }) = 1
             /\ \A k \in 1..Len(faqs') :
                   faqs'[k].id = faqs[i].id
                   => /\ faqs'[k].question = Strip(q)
                      /\ faqs'[k].answer = Strip(a)
                      /\ faqs'[k].category = c
                      /\ faqs'[k].tags = tags
                      /\ faqs'[k].alternate_questions = alts
             /\ Len(faqs') = Len(faqs)
             /\ \A j \in 1..Len(faqs) :
                   j # i => \E k \in 1..Len(faqs') : faqs'[k] = faqs[j]
             /\ \A j, l \in 1..Len(faqs) :
                   (j < l /\ j # i /\ l # i)
                   => \E k, n \in 1..Len(faqs') :
                         /\ k < n
                         /\ faqs'[k] = faqs[j]
                         /\ faqs'[n] = faqs[l] ]_vars

\* an edit gave one of two records a new question under the id it had
C20_Witness ==
    /\ op.name = "edit"
    /\ ret = TRUE
    /\ op.before = 2
    /\ Len(faqs) = 2
    /\ faqs[2].question = <<"b">>
    /\ faqs[2].id.slug = <<"a">>
    /\ FileHolds(file, faqs)

----------------------------------------------------------------------------
(* Properties of the file as the mirror of the collection *)

MutatingOps == { "add", "edit", "remove" }

\* the backing file holds what export() returns for coll, and a load of it,
\* now or later, gives coll
Mirrors(f, coll, t) ==
    /\ f.exists
    /\ f.valid
    /\ f.data = ExportToJson(coll)
    /\ Deserialize(f.data, t) = coll
    /\ Deserialize(f.data, t + TimestampModulus + 1) = coll

\* C21: after an add, an edit or a remove that reported success the backing
\* file holds the sequence export() returns for the collection in memory,
\* and a load of that file gives the same records in the same order; a load
\* or the passing of time in between does not undo it.
C21_FileMirrorsMemory ==
    [][ /\ (op'.name \in MutatingOps /\ ret' = TRUE)
           => Mirrors(file', faqs', now')
        /\ (op'.name \notin MutatingOps /\ Mirrors(file, faqs, now))
           => Mirrors(file', faqs', now') ]_vars

\* a load after a successful edit found the two records the collection had,
\* the edited one last and under the id it had before the edit
C21_Witness ==
    /\ op.name = "load"
    /\ ret = TRUE
    /\ op.before = 2
    /\ Len(faqs) = 2
    /\ Mirrors(file, faqs, now)
    /\ faqs[2].question = <<"A">>
    /\ faqs[2].id.slug = <<"a">>

----------------------------------------------------------------------------
(* Properties of two instances on one file *)

\* coll without its last record
Front(coll) == SubSeq(coll, 1, Len(coll) - 1)

\* the last record of coll
Last(coll) == coll[Len(coll)]

\* C22: when two instances hold the same loaded collection and the first
\* adds a record, saving it, and the second then adds a different record
\* (each accepted by the guard of its own instance), the second add returns
\* success with no message, the file holds exactly the collection of the
\* second instance, the record the first instance added is not in the file,
\* and the first instance still holds it in memory; either instance may be
\* the first.
C22_LastWriteWins ==
    [][ /\ ( /\ op.name = "add" /\ ret = TRUE
             /\ peer = Front(faqs)
             /\ op'.name = "peer_add"
             /\ DuplicateGuard(peer, Last(peer')) = "ok"
             /\ Last(peer') # Last(faqs) )
           => /\ ret' = TRUE
              /\ msg' = ""
              /\ FileHolds(file', peer')
              /\ ~InFile(file', Last(faqs))
              /\ faqs' = faqs
        /\ ( /\ op.name = "peer_add" /\ ret = TRUE
             /\ faqs = Front(peer)
             /\ op'.name = "add"
             /\ DuplicateGuard(faqs, Last(faqs')) = "ok"
             /\ Last(faqs') # Last(peer) )
           => /\ ret' = TRUE
              /\ msg' = ""
              /\ FileHolds(file', faqs')
              /\ ~InFile(file', Last(peer))
              /\ peer' = peer ]_vars

\* both instances loaded the file with one record; the first added "a",
\* the second then added "A"; the file holds the second's two records
C22_Witness ==
    /\ op.name = "peer_add"
    /\ ret = TRUE
    /\ msg = ""
    /\ Len(faqs) = 2
    /\ Len(peer) = 2
    /\ faqs[1] = peer[1]
    /\ faqs[1].question = <<"x">>
    /\ faqs[2].question = <<"a">>
    /\ peer[2].question = <<"A">>
    /\ FileHolds(file, peer)
    /\ ~InFile(file, faqs[2])

----------------------------------------------------------------------------
(* Properties of the submissions an enhancer can take part in *)

\* C23: a submission of the Edit FAQ form or of the manual Create FAQ form
\* with a question and an answer that are not blank reaches the store, and
\* when the enhancer is not configured, or gives no reply, the store is
\* handed exactly the trimmed texts: the call succeeds or is refused as it
\* would be for those texts, and what is stored is those texts.
C23_EnhancerNeverBlocks ==
    [][ op'.name \in {"lupdate", "add", "invalid"} =>
        /\ \A q \in EditQuestionInputs, a \in EditAnswerInputs,
              configured \in BOOLEAN :
              \A wantq, wanta \in Ticks(configured) :
              ( /\ EditSubmit(q, a, wantq, wanta, configured,
                              NoReply, NoReply)
                /\ FormFilled(q, a) )
              => LET id == session.selected_faq_id
                     typed == FAQ(q, a, id)
                 IN /\ op'.name = "lupdate"
                    /\ ret' = (Validate(typed) = "ok")
                    /\ ret' => /\ lfaqs'[id + 1].question = Strip(q)
                               /\ lfaqs'[id + 1].answer = Strip(a)
                               /\ lfile'.data[id + 1] = FAQToDict(typed)
                    /\ ~ret' => lfaqs' = lfaqs
        /\ \A q \in PageQuestionInputs, a \in AnswerInputs,
              c \in CategoryInputs, tags \in TagInputs, alts \in AltInputs :
              ( /\ session.current_page = "Create FAQ"
                /\ ManualCreate(q, a, c, tags, alts, "written")
                /\ FormFilled(q, a) )
              => /\ op'.name = "add"
                 /\ ret' = (DuplicateGuard(faqs, CreatedFaq(q, a, c, tags, alts))
                               = "ok")
                 /\ ret' => /\ faqs'[Len(faqs')].question = Strip(q)
                            /\ faqs'[Len(faqs')].answer = Strip(a) ]_vars

\* the enhancer was configured and asked for both texts, both calls failed,
\* and the edit replaced the question that was there by the one typed
C23_Witness ==
    /\ op.name = "lupdate"
    /\ ret = TRUE
    /\ hist.form = << [configured |-> TRUE, failed |-> TRUE] >>
    /\ Len(lfaqs) = 1
    /\ lfaqs[1].question = Rep("a", MinQuestionLen)
    /\ lfile.data[1].question = Rep("a", MinQuestionLen)
    /\ StartTime \in DOMAIN backups
    /\ backups[StartTime].data[1].question = Rep("b", MinQuestionLen)

----------------------------------------------------------------------------
(* Properties of an edit that does not go through *)

\* C24 as stated: when an inline edit reaches add and add returns failure
\* (the duplicate guard rejected the edited record, or the save failed),
\* every record the collection held before the edit, the edited one
\* included, is still in the collection exactly as it was.
C24_RejectedEditKeepsOriginal ==
    [][ (op'.name = "edit" /\ ret' = FALSE)
        => \A i \in 1..Len(faqs) :
              \E k \in 1..Len(faqs') : faqs'[k] = faqs[i] ]_vars

\* C25: an inline edit whose question is the record's own, as it is or with
\* only the case of letters changed, is accepted when no other record has
\* that question: the old record is taken out before the guard runs, so
\* the edited record stands in the collection under the id it had.
C25_EditAcceptsOwnQuestion ==
    [][ op'.name = "edit" =>
        \A i \in 1..Len(faqs), q \in Filled(QuestionInputs),
           a \in Filled(AnswerInputs), c \in CategoryInputs,
           tags \in TagInputs, alts \in AltInputs :
          ( /\ InlineEdit(i, q, a, c, tags, alts, "written")
            /\ EqualIgnoringCase(Strip(q), faqs[i].question)
            /\ \A j \in 1..Len(faqs) :
                  j # i => ~EqualIgnoringCase(faqs[j].question, Strip(q)) )
          => /\ ret' = TRUE
             /\ msg' = ""
             /\ Len(faqs') = Len(faqs)
             /\ faqs'[Len(faqs')].id = faqs[i].id
             /\ faqs'[Len(faqs')].question = Strip(q) ]_vars

\* an edit was accepted that left "A" under the id made from "a", beside
\* the record "b"
C25_Witness ==
    /\ op.name = "edit"
    /\ ret = TRUE
    /\ msg = ""
    /\ op.before = 2
    /\ Len(faqs) = 2
    /\ faqs[1].question = <<"b">>
    /\ faqs[2].question = <<"A">>
    /\ faqs[2].id.slug = <<"a">>

----------------------------------------------------------------------------
(* Properties of the legacy store *)

\* C26: in every state of the legacy store reached by load_data, add_faq,
\* update_faq and delete_faq the record at place k (counted from 0) has the
\* id k, so the ids are exactly 0..n-1, and get_faq_by_id(k) returns the
\* record whose id is k, or None outside 0..n-1.
C26_LegacyIdsArePositions ==
    /\ \A k \in 1..Len(lfaqs) : lfaqs[k].id = k - 1
    /\ { lfaqs[k].id : k \in 1..Len(lfaqs) } = 0..(Len(lfaqs) - 1)
    /\ \A id \in -1..MaxLegacy :
          IF id \in 0..(Len(lfaqs) - 1)
          THEN /\ GetFaqById(lfaqs, id) # <<>>
               /\ GetFaqById(lfaqs, id)[1].id = id
          ELSE GetFaqById(lfaqs, id) = <<>>

\* the first of two records was deleted: the record that was second is
\* now the only one, with the id 0
C26_Witness ==
    /\ op.name = "ldelete"
    /\ ret = TRUE
    /\ op.before = 2
    /\ Len(lfaqs) = 1
    /\ lfaqs[1].id = 0
    /\ lfaqs[1].question = Rep("b", MinQuestionLen)
    /\ \E s \in DOMAIN backups :
          /\ Len(backups[s].data) = 2
          /\ backups[s].data[1].question = Rep("a", MinQuestionLen)
          /\ backups[s].data[2].question = Rep("b", MinQuestionLen)

\* C27 as stated: whenever the Edit FAQ page is shown with an FAQ selected,
\* whatever Edit clicks, sidebar navigation and deletions on the View page
\* came before, get_faq_by_id(selected_faq_id) gives the record Edit was
\* last clicked on (the same question and answer), which is then the one
\* update_faq or delete_faq changes, or gives no record.
C27_EditSelectionStays ==
    ( /\ session.current_page = "Edit FAQ"
      /\ session.selected_faq_id # NoSelection )
    => LET loaded == GetFaqById(lfaqs, session.selected_faq_id)
       IN \/ loaded = <<>>
          \/ << FAQToDict(loaded[1]) >> = hist.picked

----------------------------------------------------------------------------
(* Properties of a save that fails *)

\* C28 as stated: whenever save() reports failure, at whatever step, the
\* primary backing file holds exactly the content it had before the save
\* was called, never an empty or partly written one.
C28_FailedSaveKeepsFile ==
    [][ (op'.name \in MutatingOps /\ msg' = "save_error")
        => file' = file ]_vars

----------------------------------------------------------------------------
(* Properties of the legacy store's refusals *)

\* the record made of q and a fails validation
BadText(q, a) ==
    \/ Strip(q) = <<>>
    \/ Strip(a) = <<>>
    \/ Len(Strip(q)) < MinQuestionLen
    \/ Len(Strip(a)) < MinAnswerLen

BadId(id) == id \notin 0..(Len(lfaqs) - 1)

\* the call returned failure and changed neither the collection (ids
\* included) nor the backing file nor the backups
Refused ==
    /\ ret' = FALSE
    /\ msg' # ""
    /\ lfaqs' = lfaqs
    /\ lfile' = lfile
    /\ backups' = backups

\* C29: update_faq and delete_faq with an id outside 0..n-1, and add_faq and
\* update_faq with a record that fails validation (question or answer
\* empty, question shorter than 5, answer shorter than 10), return failure,
\* leave the collection and every id as they were, and write neither the
\* backing file nor a backup.
C29_LegacyRejects ==
    [][ /\ op'.name = "ldelete" =>
              \A id \in -1..MaxLegacy :
                 (DeleteFaq(id) /\ BadId(id)) => Refused
        /\ op'.name = "ladd" =>
              \A q \in RejectQuestionInputs, a \in RejectAnswerInputs :
                 (AddFaq(q, a) /\ BadText(q, a)) => Refused
        /\ op'.name = "lupdate" =>
              \A id \in -1..MaxLegacy, q \in RejectQuestionInputs,
                 a \in RejectAnswerInputs :
                 (UpdateFaq(id, q, a) /\ (BadId(id) \/ BadText(q, a)))
                 => Refused ]_vars

\* an update of one of two records was refused for its answer, one short
\* of the least length, and the file and its backup are as they were
C29_Witness ==
    /\ op.name = "lupdate"
    /\ ret = FALSE
    /\ msg = "short_answer"
    /\ Len(lfaqs) = 2
    /\ Len(lfile.data) = 2
    /\ \A k \in 1..2 : lfile.data[k] = FAQToDict(lfaqs[k])
    /\ Cardinality(DOMAIN backups) = 1

----------------------------------------------------------------------------
(* Properties of "Convert All FAQs" *)

\* the conversion has come to its end
ConversionDone ==
    /\ session.converting_all
    /\ session.conversion_progress = Len(lfaqs)

\* C30: "Convert All FAQs" sets the counter to 0; every pass adds exactly 1
\* to it, whether the FAQ was converted, skipped as a duplicate or not
\* converted, and leaves the legacy collection and its file as they were;
\* the counter never exceeds the number of legacy FAQs and the places tried
\* are 0, 1, ... up to the counter, each once; and a conversion under way
\* comes to its end (counter = n) unless it is closed, the page is left or
\* a conversion is started anew.
C30_ConvertAllTerminates ==
    /\ [][ /\ op'.name = "convert_all" => session'.conversion_progress = 0
           /\ op'.name = "convert" =>
                 /\ session'.conversion_progress
                       = session.conversion_progress + 1
                 /\ lfaqs' = lfaqs
                 /\ lfile' = lfile
                 /\ backups' = backups ]_vars
    /\ [](session.converting_all =>
            /\ session.conversion_progress <= Len(lfaqs)
            /\ Len(hist.attempted) = session.conversion_progress
            /\ \A k \in 1..Len(hist.attempted) :
                  hist.attempted[k].at = k - 1)
    /\ \A run \in {0, 1} :
         [](session.converting_all /\ hist.run = run =>
              <>(ConversionDone \/ ~session.converting_all
                                \/ ~ConversionShown
                                \/ hist.run # run))

\* the conversion of two legacy FAQs with the same question is at its end:
\* the first was converted, the second skipped as a duplicate
C30_Witness ==
    /\ ConversionDone
    /\ ConversionShown
    /\ Len(lfaqs) = 2
    /\ Len(hist.attempted) = 2
    /\ hist.attempted[1].result = "converted"
    /\ hist.attempted[2].result = "skipped"
    /\ Len(faqs) = 1
    /\ msg = "dup_question"

====
